---- MODULE Spec2Model ----
(***************************************************************************)
(* Model of the Go module proxy of cmd/goproxy.go: the namespace           *)
(* middleware, the four routes, the remote tag listing, the cache probe    *)
(* and the fetcher that fills the cache directory from a git checkout.     *)
(*                                                                         *)
(* Strings the code inspects character by character (URL paths, escaped    *)
(* module paths) are sequences of one-character strings.                   *)
(***************************************************************************)
EXTENDS Integers, Sequences, FiniteSets, TLC

(* ------------------------------ bounds --------------------------------- *)
\* number of HTTP requests the model follows; each has a worker of its own,
\* so all of them can be handled at the same time
NReq == 2
\* number of commits the mutable branch can point to, one after the other
MaxCommit == 2
\* longest output of the remote tag listing, in lines
MaxLines == 1

Reqs == 1..NReq

(* --------------------------- configuration ----------------------------- *)
\* SRC_REPO, the source namespace ("s.c/a")
SrcRepo == <<"s", ".", "c", "/", "a">>

(* ------------------------------ strings -------------------------------- *)
\* strings.HasPrefix(s, p)
HasPrefix(s, p) == Len(s) >= Len(p) /\ SubSeq(s, 1, Len(p)) = p

RECURSIVE SplitFrom(_, _, _)
SplitFrom(s, i, cur) ==
    IF i > Len(s) THEN <<cur>>
    ELSE IF s[i] = "/" THEN <<cur>> \o SplitFrom(s, i + 1, <<>>)
    ELSE SplitFrom(s, i + 1, Append(cur, s[i]))

\* strings.Split(s, "/")
Split(s) == SplitFrom(s, 1, <<>>)

\* segment[len(segment)-1]
LastSegment(s) == Split(s)[Len(Split(s))]

LowerToUpper == [c \in {"x", "y", "v"} |-> CASE c = "x" -> "X" [] c = "y" -> "Y" [] c = "v" -> "V"]
UpperCase == {"X", "Y", "V"}

Fail == <<"#fail">>

RECURSIVE unescapeFrom(_, _, _, _)
unescapeFrom(s, i, bang, buf) ==
    IF i > Len(s) THEN (IF bang THEN Fail ELSE buf)
    ELSE IF bang
         THEN IF s[i] \in DOMAIN LowerToUpper
              THEN unescapeFrom(s, i + 1, FALSE, Append(buf, LowerToUpper[s[i]]))
              ELSE Fail
         ELSE IF s[i] = "!" THEN unescapeFrom(s, i + 1, TRUE, buf)
         ELSE IF s[i] \in UpperCase THEN Fail
         ELSE unescapeFrom(s, i + 1, FALSE, Append(buf, s[i]))

\* module.unescapeString: '!' + lowercase letter becomes the uppercase letter
unescapeString(s) == unescapeFrom(s, 1, FALSE, <<>>)

\* module.CheckPath, as far as the paths of the model go: no empty element,
\* and a dot in the first element
CheckPath(p) ==
    /\ \A i \in 1..Len(Split(p)) : Len(Split(p)[i]) > 0
    /\ \E j \in 1..Len(Split(p)[1]) : Split(p)[1][j] = "."

\* module.UnescapePath
UnescapePath(s) ==
    IF unescapeString(s) = Fail THEN Fail
    ELSE IF ~CheckPath(unescapeString(s)) THEN Fail
    ELSE unescapeString(s)

(* ------------------------------ requests ------------------------------- *)
ModX     == <<"s", ".", "c", "/", "a", "/", "x">>
ModUp    == <<"s", ".", "c", "/", "a", "/", "!", "x">>
ModBad   == <<"s", ".", "c", "/", "a", "/", "X">>
ModNoSeg == <<"s", ".", "c", "/", "a", "b", "/", "x">>
ModOut   == <<"u", ".", "c", "/", "x">>
ModMid   == <<"s", ".", "c", "/", "a", "/", "!", "y", "/", "x">>
ModDeep  == <<"s", ".", "c", "/", "a", "/", "x", "/", "m">>

VerTag    == <<"v", "1">>
VerBranch == <<"m">>
VerGoMod  == <<"g", "o", ".", "m", "o", "d">>
NoVer     == <<>>

Request(meth, shape, module, version) ==
    [meth |-> meth, shape |-> shape, module |-> module, version |-> version]

\* the requests a client sends
Inputs ==
    {Request("GET", s, ModX, VerBranch) : s \in {"info", "mod", "zip"}}
    \cup {Request("GET", "info", m, VerTag) : m \in {ModX, ModBad, ModNoSeg, ModMid}}
    \cup {Request("GET", "list", m, NoVer) : m \in {ModX, ModUp, ModBad, ModOut}}
    \cup {Request("POST", "info", m, VerTag) : m \in {ModX, ModOut}}
    \cup {Request("GET", "latest", ModX, NoVer)}
    \cup {Request("GET", "info", ModDeep, VerGoMod)}

Suffix(shape) ==
    CASE shape = "info" -> <<".", "i", "n", "f", "o">>
      [] shape = "mod"  -> <<".", "m", "o", "d">>
      [] shape = "zip"  -> <<".", "z", "i", "p">>
      [] OTHER          -> <<>>

\* r.URL.Path of a request
UrlPath(q) ==
    IF q.shape = "list" THEN <<"/">> \o q.module \o <<"/", "@", "v", "/", "l", "i", "s", "t">>
    ELSE IF q.shape = "latest" THEN <<"/">> \o q.module \o <<"/", "@", "l", "a", "t", "e", "s", "t">>
    ELSE <<"/">> \o q.module \o <<"/", "@", "v", "/">> \o q.version \o Suffix(q.shape)

\* CacheKey: the mux variables module and version, as the handlers use them
Key(q) == <<q.module, q.version>>

Keys == {Key(q) : q \in {i \in Inputs : i.shape \in {"info", "mod", "zip"}}}

\* destDir := filepath.Join(CacheDir, name, version), below CacheDir
DestDir(k) == k[1] \o <<"/">> \o k[2]

\* the file names of the three artifacts in destDir
ArtifactName(version, a) ==
    CASE a = "info" -> version \o Suffix("info")
      [] a = "mod"  -> <<"g", "o", ".", "m", "o", "d">>
      [] a = "zip"  -> <<"s", "o", "u", "r", "c", "e", ".", "z", "i", "p">>

\* the path the handler probes and the fetcher writes, below CacheDir
ArtifactPath(k, a) == DestDir(k) \o <<"/">> \o ArtifactName(k[2], a)

(* ------------------------------- remote -------------------------------- *)
\* the repositories of the destination host, by name
Repos == {<<"x">>}

\* lines of 'git ls-remote --tags': "<sha>\trefs/tags/v1", the peeled entry
\* of an annotated tag, and a line that names no tag
TagLine    == <<"h", " ", "r", "e", "f", "s", "/", "t", "a", "g", "s", "/", "v", "1">>
PeeledLine == <<"h", " ", "r", "e", "f", "s", "/", "t", "a", "g", "s", "/", "v", "1", "^", "{", "}">>
HeadLine   == <<"h", " ", "r", "e", "f", "s", "/", "h", "e", "a", "d", "s", "/", "m">>
RefLines   == {TagLine, PeeledLine, HeadLine}

LsOutputs == UNION {[1..n -> RefLines] : n \in 0..MaxLines}

\* strings.Contains(s, sub)
Contains(s, sub) ==
    \E i \in 1..(Len(s) - Len(sub) + 1) : SubSeq(s, i, i + Len(sub) - 1) = sub

RefsTags == <<"r", "e", "f", "s", "/", "t", "a", "g", "s", "/">>

RECURSIVE parseLines(_)
\* the loop of listVersionsGit over the lines of the listing
parseLines(lines) ==
    IF Len(lines) = 0 THEN <<>>
    ELSE (IF Len(Split(Head(lines))) > 2 /\ Contains(Head(lines), RefsTags)
          THEN <<LastSegment(Head(lines))>>
          ELSE <<>>) \o parseLines(Tail(lines))

(* ------------------------------- state --------------------------------- *)
VARIABLES
    alive,      \* the serving process runs (log.Fatal ends it)
    pc,         \* position of each request's worker
    req,        \* the request each worker handles
    resp,       \* the response each request received
    fx,         \* what each request's handling has done so far
    disk,       \* the cache directory tree, per CacheKey
    scratch,    \* the scratch directories that exist, by the request that made them
    head,       \* the commit the remote branch points to
    refs        \* the lines 'git ls-remote --tags' returns for the remote now

vars == <<alive, pc, req, resp, fx, disk, scratch, head, refs>>

NoRequest == Request("-", "-", <<>>, <<>>)
NoFile    == [present |-> FALSE, by |-> 0, commit |-> 0, full |-> FALSE,
              isdir |-> FALSE]
NoResp    == [status |-> 0, nostore |-> FALSE, ctype |-> "-", kind |-> "-",
              file |-> NoFile, entry |-> FALSE, lines |-> <<>>]
NoFx      == [routed |-> FALSE, decoded |-> FALSE, listed |-> FALSE, probes |-> 0,
              fetches |-> 0, commit |-> 0, failedAt |-> "-", shared |-> FALSE,
              lsErr |-> FALSE, prefix |-> <<>>]
EmptyDir  == [dir |-> FALSE, info |-> NoFile, mod |-> NoFile, zip |-> NoFile]

Artifacts == {"info", "mod", "zip"}

\* the artifact file of an entry that an endpoint probes
FileOf(entry, shape) ==
    CASE shape = "info" -> entry.info
      [] shape = "mod"  -> entry.mod
      [] shape = "zip"  -> entry.zip

\* the content type http.ServeFile picks when the handler sets none: by the
\* file's extension, else by its first bytes
MimeSniffed(shape) ==
    CASE shape = "info" -> "text/plain; charset=utf-8"
      [] shape = "mod"  -> "text/plain; charset=utf-8"
      [] shape = "zip"  -> "application/zip"

\* the mime argument info, mod and zip pass to serveCachedFile
Mime(shape) ==
    CASE shape = "info" -> "application/json"
      [] shape = "mod"  -> "text/plain; charset=UTF-8"
      [] shape = "zip"  -> "application/zip"

AllFull(entry) == \A a \in Artifacts : FileOf(entry, a).present /\ FileOf(entry, a).full
Cold(entry)    == \A a \in Artifacts : ~FileOf(entry, a).present

FetchPcs == {"infoCreate", "infoWrite", "modCreate", "modCopy",
             "zipCreate", "zipCopy"}
InFlight == {"lsremote", "fetchCall", "probe2", "stalled"} \cup FetchPcs

Init ==
    /\ alive = TRUE
    /\ pc = [r \in Reqs |-> "idle"]
    /\ req = [r \in Reqs |-> NoRequest]
    /\ resp = [r \in Reqs |-> NoResp]
    /\ fx = [r \in Reqs |-> NoFx]
    /\ disk = [k \in Keys |-> EmptyDir]
    /\ scratch = {}
    /\ head = 1
    /\ refs = <<TagLine>>

(* ------------------------------ responses ------------------------------ *)
\* http.Error(w, msg, code): headers set before stay
ErrorResp(code, nostore) ==
    [NoResp EXCEPT !.status = code, !.nostore = nostore,
                   !.ctype = "text/plain; charset=utf-8", !.kind = "error"]

\* serveCachedFile hit: http.ServeFile streams the file as it is now
FileResp(entry, shape) ==
    IF FileOf(entry, shape).isdir
    THEN \* a directory is at the path: ServeFile redirects to the path + "/"
         [NoResp EXCEPT !.status = 301, !.nostore = TRUE, !.ctype = Mime(shape),
                        !.kind = "redirect"]
    ELSE [NoResp EXCEPT !.status = 200, !.nostore = TRUE, !.ctype = Mime(shape),
                        !.kind = "file", !.file = FileOf(entry, shape),
                        !.entry = AllFull(entry)]

\* the handler returns without writing a body
EmptyResp(shape) ==
    [NoResp EXCEPT !.status = 200, !.nostore = TRUE, !.ctype = Mime(shape),
                   !.kind = "empty"]

\* serveCachedFile: os.Stat(cachePath) succeeds
serveCachedFile(entry, shape) == FileOf(entry, shape).present

(* --------------------------- middleware, router ------------------------ *)
\* isValidPkg without its check: every request is passed on to the router
isValidPkgNoCheck(q) == TRUE

\* isValidPkg: strings.HasPrefix(r.URL.Path, "/"+SrcRepo)
isValidPkg(q) == HasPrefix(UrlPath(q), <<"/">> \o SrcRepo)

\* the four routes without .Methods(http.MethodGet): any method is routed
RouteStatusAnyMethod(q) ==
    IF q.shape \notin {"list", "info", "mod", "zip"} THEN 404 ELSE 200

\* mux router: the four routes, GET only
RouteStatus(q) ==
    IF q.shape \notin {"list", "info", "mod", "zip"} THEN 404
    ELSE IF q.meth # "GET" THEN 405
    ELSE 200

\* the requests that wait to fetch the key of q, still cold, when r misses on
\* it (bookkeeping: the requests that miss on a cold key concurrently)
ColdPeers(r, q) ==
    {o \in Reqs \ {r} : /\ pc[o] = "fetchCall"
                         /\ Key(req[o]) = Key(q)
                         /\ Cold(disk[Key(q)])}

\* the request is taken off the wire and handled up to its first blocking
\* operation: middleware, router, and then list's decoding or the first
\* cache probe of info, mod, zip
Receive(r, q) ==
    /\ alive
    /\ pc[r] = "idle"
    /\ \A o \in Reqs : o < r => pc[o] # "idle"
    /\ req' = [req EXCEPT ![r] = q]
    /\ UNCHANGED <<alive, disk, scratch, head, refs>>
    /\ IF ~isValidPkg(q)
       THEN /\ resp' = [resp EXCEPT ![r] = ErrorResp(404, FALSE)]
            /\ pc' = [pc EXCEPT ![r] = "done"]
            /\ fx' = fx
       ELSE IF RouteStatus(q) # 200
       THEN /\ resp' = [resp EXCEPT ![r] = ErrorResp(RouteStatus(q), FALSE)]
            /\ pc' = [pc EXCEPT ![r] = "done"]
            /\ fx' = [fx EXCEPT ![r].routed = TRUE]
       ELSE IF q.shape = "list"
       THEN IF UnescapePath(q.module) = Fail
            THEN /\ resp' = [resp EXCEPT ![r] = ErrorResp(400, FALSE)]
                 /\ pc' = [pc EXCEPT ![r] = "done"]
                 /\ fx' = [fx EXCEPT ![r].routed = TRUE]
            ELSE /\ resp' = resp
                 /\ pc' = [pc EXCEPT ![r] = "lsremote"]
                 /\ fx' = [fx EXCEPT ![r].routed = TRUE, ![r].decoded = TRUE]
       ELSE IF serveCachedFile(disk[Key(q)], q.shape)
            THEN /\ resp' = [resp EXCEPT ![r] = FileResp(disk[Key(q)], q.shape)]
                 /\ pc' = [pc EXCEPT ![r] = "done"]
                 /\ fx' = [fx EXCEPT ![r].routed = TRUE, ![r].probes = 1]
            ELSE /\ resp' = resp
                 /\ pc' = [pc EXCEPT ![r] = "fetchCall"]
                 /\ fx' = [o \in Reqs |->
                             IF o = r
                             THEN [fx[r] EXCEPT !.routed = TRUE, !.probes = 1,
                                                !.shared = ColdPeers(r, q) # {}]
                             ELSE IF o \in ColdPeers(r, q)
                             THEN [fx[o] EXCEPT !.shared = TRUE]
                             ELSE fx[o]]

(* -------------------------------- list --------------------------------- *)
\* the done list request for the module name whose listing is kept, if any
Listed(name) ==
    {o \in Reqs : /\ pc[o] = "done" /\ req[o].shape = "list"
                  /\ UnescapePath(req[o].module) = name
                  /\ resp[o].kind = "list"}

\* listVersionsGit answering from the listing of an earlier request for the
\* same module instead of asking the remote again
listVersionsGitCached(name, ok) ==
    IF Listed(name) # {}
    THEN [err |-> FALSE, versions |-> resp[CHOOSE o \in Listed(name) : TRUE].lines]
    ELSE IF ok /\ LastSegment(name) \in Repos
    THEN [err |-> FALSE, versions |-> parseLines(refs)]
    ELSE [err |-> TRUE, versions |-> <<>>]

\* listVersionsGit(name): 'git ls-remote --tags' on the repository named by
\* the last segment.  The command fails to start, its output cannot be read
\* or it exits with an error (ok = FALSE, or there is no such repository):
\* nil and the error; otherwise the tag names parsed from its lines
listVersionsGit(name, ok) ==
    IF ok /\ LastSegment(name) \in Repos
    THEN [err |-> FALSE, versions |-> parseLines(refs)]
    ELSE [err |-> TRUE, versions |-> <<>>]

\* list ignoring the error of listVersionsGit
ListRespIgnoresErr(res) ==
    [NoResp EXCEPT !.status = 200, !.nostore = TRUE,
                   !.ctype = "text/plain; charset=utf-8",
                   !.kind = "list", !.lines = res.versions]

\* list, after listVersionsGit: 404 with the error, or the header and one
\* line per version
ListResp(res) ==
    IF res.err
    THEN ErrorResp(404, FALSE)
    ELSE [NoResp EXCEPT !.status = 200, !.nostore = TRUE,
                        !.ctype = "text/plain; charset=utf-8",
                        !.kind = "list", !.lines = res.versions]

\* list, after decoding: the remote listing and the response
list(r, ok) ==
    /\ alive
    /\ pc[r] = "lsremote"
    /\ pc' = [pc EXCEPT ![r] = "done"]
    /\ fx' = [fx EXCEPT ![r].listed = TRUE,
                        ![r].lsErr = ~(ok /\ LastSegment(UnescapePath(req[r].module)) \in Repos)]
    /\ resp' = [resp EXCEPT ![r] =
                 ListResp(listVersionsGit(UnescapePath(req[r].module), ok))]
    /\ UNCHANGED <<alive, req, disk, scratch, head, refs>>

(* ------------------------------- fetcher -------------------------------- *)
\* log.Fatalf: the process exits; no request in flight gets a response
Fatal(r, step) ==
    /\ alive' = FALSE
    /\ pc' = [o \in Reqs |-> IF pc[o] \in InFlight THEN "dropped" ELSE pc[o]]
    /\ fx' = [fx EXCEPT ![r].failedAt = step, ![r].fetches = 1]
    /\ resp' = resp

\* a handler that calls fetchAndCache again when it returns err
ReturnErrRetries(r, step) ==
    /\ alive' = alive
    /\ pc' = [pc EXCEPT ![r] = "fetchCall"]
    /\ fx' = [fx EXCEPT ![r].failedAt = step, ![r].fetches = 1]
    /\ resp' = resp

\* fetchAndCache returns err: the handler answers 500; serveCachedFile has
\* set Cache-Control before
ReturnErr(r, step) ==
    /\ alive' = alive
    /\ pc' = [pc EXCEPT ![r] = "done"]
    /\ fx' = [fx EXCEPT ![r].failedAt = step, ![r].fetches = 1]
    /\ resp' = [resp EXCEPT ![r] = ErrorResp(500, TRUE)]

\* the next statement of fetchAndCache
Goto(r, next) ==
    /\ alive' = alive
    /\ pc' = [pc EXCEPT ![r] = next]
    /\ fx' = fx
    /\ resp' = resp

\* os.WriteFile / os.Create: the file exists and is empty
Truncated(r) == [present |-> TRUE, by |-> r, commit |-> fx[r].commit, full |-> FALSE,
                 isdir |-> FALSE]
\* the content is written
Written(r) == [present |-> TRUE, by |-> r, commit |-> fx[r].commit, full |-> TRUE,
               isdir |-> FALSE]

\* the ref 'git clone -b version' can check out: the repository named by the
\* last segment of the module, and the tag or the branch in it
RefExists(q) == LastSegment(q.module) \in Repos /\ q.version \in {VerTag, VerBranch}
\* the tag v1 stays on commit 1, the branch m is on head
RefCommit(q) == IF q.version = VerTag THEN 1 ELSE head

\* a failing checkout that has left an empty <version>.info behind
CloneFailedLeavesInfo(entry) ==
    [entry EXCEPT !.dir = TRUE, !.info = [NoFile EXCEPT !.present = TRUE]]

\* what the failing checkout leaves of the entry: its directory
CloneFailed(entry) == [entry EXCEPT !.dir = TRUE]

\* the artifacts, of any key, whose path is destDir of k or a directory
\* above it
AtPath(k) ==
    {p \in Keys \X Artifacts :
        \/ ArtifactPath(p[1], p[2]) = DestDir(k)
        \/ HasPrefix(DestDir(k), ArtifactPath(p[1], p[2]) \o <<"/">>)}

\* os.MkdirAll(destDir) succeeds: no regular file is in the way
MkdirAllOk(k) ==
    \A p \in AtPath(k) :
        ~FileOf(disk[p[1]], p[2]).present \/ FileOf(disk[p[1]], p[2]).isdir

\* what os.MkdirAll leaves at a path of AtPath(k): a directory
DirAt(r, f) ==
    IF f.present THEN f
    ELSE [present |-> TRUE, by |-> r, commit |-> 0, full |-> FALSE, isdir |-> TRUE]

\* the cache tree after os.MkdirAll(destDir) for key k: destDir and every
\* directory above it exist
MkdirAll(r, k) ==
    [k2 \in Keys |->
        [dir  |-> \/ disk[k2].dir
                  \/ k2 = k
                  \/ HasPrefix(DestDir(k), DestDir(k2) \o <<"/">>),
         info |-> IF <<k2, "info">> \in AtPath(k) THEN DirAt(r, disk[k2].info)
                  ELSE disk[k2].info,
         mod  |-> IF <<k2, "mod">> \in AtPath(k) THEN DirAt(r, disk[k2].mod)
                  ELSE disk[k2].mod,
         zip  |-> IF <<k2, "zip">> \in AtPath(k) THEN DirAt(r, disk[k2].zip)
                  ELSE disk[k2].zip]]

\* fetchAndCache is called after the miss: os.MkdirTemp, os.MkdirAll(destDir)
\* and git clone -b version cloneURL cloneTempDir, which fails when the ref
\* does not exist and on a network or authentication failure.  Nothing reads
\* the directories in between, so the three calls are one step.
FetchStart(r, outcome) ==
    /\ alive
    /\ pc[r] = "fetchCall"
    /\ UNCHANGED <<req, head, refs>>
    /\ IF outcome = "mkdirtemp"
       THEN /\ Fatal(r, "mkdirtemp")
            /\ UNCHANGED <<disk, scratch>>
       ELSE IF outcome = "mkdirall" \/ ~MkdirAllOk(Key(req[r]))
       THEN /\ ReturnErr(r, "mkdirall")
            /\ scratch' = scratch \cup {r}
            /\ disk' = disk
       ELSE IF outcome = "clone" \/ ~RefExists(req[r])
       THEN /\ ReturnErr(r, "clone")
            /\ scratch' = scratch \cup {r}
            /\ disk' = [MkdirAll(r, Key(req[r])) EXCEPT ![Key(req[r])] = CloneFailed(@)]
       ELSE /\ alive' = alive
            /\ pc' = [pc EXCEPT ![r] = "infoCreate"]
            /\ fx' = [fx EXCEPT ![r].fetches = @ + 1, ![r].commit = RefCommit(req[r])]
            /\ resp' = resp
            /\ scratch' = scratch \cup {r}
            /\ disk' = MkdirAll(r, Key(req[r]))

\* git log -1 --format=%cI, json.Marshal, and os.WriteFile opening the file
InfoCreate(r, outcome) ==
    /\ alive
    /\ pc[r] = "infoCreate"
    /\ UNCHANGED <<req, head, scratch, refs>>
    /\ IF outcome = "ok" /\ ~disk[Key(req[r])].info.isdir
       THEN /\ Goto(r, "infoWrite")
            /\ disk' = [disk EXCEPT ![Key(req[r])].info = Truncated(r)]
       ELSE /\ Fatal(r, IF outcome = "ok" THEN "infoopen" ELSE outcome)
            /\ disk' = disk

\* os.WriteFile writing the JSON data
InfoWrite(r, ok) ==
    /\ alive
    /\ pc[r] = "infoWrite"
    /\ UNCHANGED <<req, head, scratch, refs>>
    /\ IF ok
       THEN /\ Goto(r, "modCreate")
            /\ disk' = [disk EXCEPT ![Key(req[r])].info = Written(r)]
       ELSE /\ Fatal(r, "infowrite")
            /\ disk' = disk

\* copyFile(sourceGoMod, destGoMod): os.Open, os.Create
ModCreate(r, ok) ==
    /\ alive
    /\ pc[r] = "modCreate"
    /\ UNCHANGED <<req, head, scratch, refs>>
    /\ IF ok /\ ~disk[Key(req[r])].mod.isdir
       THEN /\ Goto(r, "modCopy")
            /\ disk' = [disk EXCEPT ![Key(req[r])].mod = Truncated(r)]
       ELSE /\ Fatal(r, "modopen")
            /\ disk' = disk

\* copyFile(sourceGoMod, destGoMod): io.Copy
ModCopy(r, ok) ==
    /\ alive
    /\ pc[r] = "modCopy"
    /\ UNCHANGED <<req, head, scratch, refs>>
    /\ IF ok
       THEN /\ Goto(r, "zipCreate")
            /\ disk' = [disk EXCEPT ![Key(req[r])].mod = Written(r)]
       ELSE /\ Fatal(r, "modcopy")
            /\ disk' = disk

\* prefix := fmt.Sprintf("%s@%s/", name, version)
ArchivePrefix(name, version) == name \o <<"@">> \o version \o <<"/">>

\* git archive --prefix, then copyFile(sourceZip, destZip): os.Open, os.Create
ZipCreate(r, outcome) ==
    /\ alive
    /\ pc[r] = "zipCreate"
    /\ UNCHANGED <<req, head, scratch, refs>>
    /\ IF outcome = "ok" /\ ~disk[Key(req[r])].zip.isdir
       THEN /\ alive' = alive
            /\ pc' = [pc EXCEPT ![r] = "zipCopy"]
            /\ fx' = [fx EXCEPT ![r].prefix = ArchivePrefix(req[r].module, req[r].version)]
            /\ resp' = resp
            /\ disk' = [disk EXCEPT ![Key(req[r])].zip = Truncated(r)]
       ELSE /\ Fatal(r, IF outcome = "ok" THEN "zipopen" ELSE outcome)
            /\ disk' = disk

\* copyFile(sourceZip, destZip): io.Copy; fetchAndCache returns nil
ZipCopy(r, ok) ==
    /\ alive
    /\ pc[r] = "zipCopy"
    /\ UNCHANGED <<req, head, scratch, refs>>
    /\ IF ok
       THEN /\ Goto(r, "probe2")
            /\ disk' = [disk EXCEPT ![Key(req[r])].zip = Written(r)]
       ELSE /\ Fatal(r, "zipcopy")
            /\ disk' = disk

\* a second serveCachedFile that removes the archive once it has answered
ReprobeRemovesZip(r) ==
    /\ alive
    /\ pc[r] = "probe2"
    /\ pc' = [pc EXCEPT ![r] = "done"]
    /\ fx' = [fx EXCEPT ![r].probes = 2]
    /\ resp' = [resp EXCEPT ![r] =
                 IF serveCachedFile(disk[Key(req[r])], req[r].shape)
                 THEN FileResp(disk[Key(req[r])], req[r].shape)
                 ELSE EmptyResp(req[r].shape)]
    /\ disk' = [disk EXCEPT ![Key(req[r])].zip = NoFile]
    /\ UNCHANGED <<alive, req, scratch, head, refs>>

\* the second serveCachedFile of info, mod, zip
Reprobe(r) ==
    /\ alive
    /\ pc[r] = "probe2"
    /\ pc' = [pc EXCEPT ![r] = "done"]
    /\ fx' = [fx EXCEPT ![r].probes = 2]
    /\ resp' = [resp EXCEPT ![r] =
                 IF serveCachedFile(disk[Key(req[r])], req[r].shape)
                 THEN FileResp(disk[Key(req[r])], req[r].shape)
                 ELSE EmptyResp(req[r].shape)]
    /\ UNCHANGED <<alive, req, disk, scratch, head, refs>>

\* the remote host accepts the connection and then never answers: git
\* ls-remote (cmd.Wait in listVersionsGit) or git clone (cmd.CombinedOutput
\* in fetchAndCache, after os.MkdirTemp and os.MkdirAll) does not return, and
\* the worker waits for it without a deadline
Stall(r) ==
    /\ alive
    /\ pc[r] \in {"lsremote", "fetchCall"}
    /\ pc' = [pc EXCEPT ![r] = "stalled"]
    /\ IF pc[r] = "fetchCall"
       THEN /\ MkdirAllOk(Key(req[r]))
            /\ fx' = [fx EXCEPT ![r].fetches = 1]
            /\ scratch' = scratch \cup {r}
            /\ disk' = MkdirAll(r, Key(req[r]))
       ELSE UNCHANGED <<fx, scratch, disk>>
    /\ UNCHANGED <<alive, req, resp, head, refs>>

(* ----------------------------- environment ----------------------------- *)
\* a push moves the branch of the remote repository to a new commit
MoveBranch ==
    /\ head < MaxCommit
    /\ head' = head + 1
    /\ UNCHANGED <<alive, pc, req, resp, fx, disk, scratch, refs>>

\* a push changes the tags of the remote repository: the listing returns
\* other lines from now on
PushRefs(lines) ==
    /\ lines # refs
    /\ refs' = lines
    /\ UNCHANGED <<alive, pc, req, resp, fx, disk, scratch, head>>

Next ==
    \/ \E r \in Reqs, q \in Inputs : Receive(r, q)
    \/ \E r \in Reqs, ok \in BOOLEAN : list(r, ok)
    \/ \E r \in Reqs, o \in {"ok", "mkdirtemp", "mkdirall", "clone"} : FetchStart(r, o)
    \/ \E r \in Reqs, o \in {"ok", "gitlog", "infoopen"} : InfoCreate(r, o)
    \/ \E r \in Reqs, ok \in BOOLEAN : InfoWrite(r, ok)
    \/ \E r \in Reqs, ok \in BOOLEAN : ModCreate(r, ok)
    \/ \E r \in Reqs, ok \in BOOLEAN : ModCopy(r, ok)
    \/ \E r \in Reqs, o \in {"ok", "archive", "zipopen"} : ZipCreate(r, o)
    \/ \E r \in Reqs, ok \in BOOLEAN : ZipCopy(r, ok)
    \/ \E r \in Reqs : Reprobe(r)
    \/ \E r \in Reqs : Stall(r)
    \/ MoveBranch
    \/ \E lines \in LsOutputs : PushRefs(lines)

Spec == Init /\ [][Next]_vars

\* the steps of the worker that handles request r
Handle(r) ==
    \/ \E ok \in BOOLEAN : list(r, ok)
    \/ \E o \in {"ok", "mkdirtemp", "mkdirall", "clone"} : FetchStart(r, o)
    \/ \E o \in {"ok", "gitlog", "infoopen"} : InfoCreate(r, o)
    \/ \E ok \in BOOLEAN : InfoWrite(r, ok)
    \/ \E ok \in BOOLEAN : ModCreate(r, ok)
    \/ \E ok \in BOOLEAN : ModCopy(r, ok)
    \/ \E o \in {"ok", "archive", "zipopen"} : ZipCreate(r, o)
    \/ \E ok \in BOOLEAN : ZipCopy(r, ok)
    \/ Reprobe(r)
    \/ Stall(r)

\* every worker is a goroutine of its own and the scheduler lets each one
\* run: a worker that can take a step takes one
LiveSpec == Spec /\ \A r \in Reqs : WF_vars(Handle(r))

(* ----------------------------- properties ------------------------------ *)
\* requests that missed on their first probe and have not answered yet
MissedPcs == {"fetchCall", "probe2"} \cup FetchPcs

KeyOf(r) == Key(req[r])

\* C1: single-flight.  Requests that have missed on the same key and are
\* handled at the same time cause one execution of the fetcher, so two of
\* them never have a fetch of their own, and no two fetches for one key are
\* in flight.
C1_SingleFlight ==
    \A r1, r2 \in Reqs :
        (r1 # r2 /\ KeyOf(r1) = KeyOf(r2) /\ pc[r1] \in MissedPcs /\ pc[r2] \in MissedPcs)
            => ~(fx[r1].fetches = 1 /\ fx[r2].fetches = 1)

\* C2: atomic install.  A request that is served an artifact from the cache
\* is served a completely written file, out of an entry whose three artifacts
\* are all present and completely written.
C2_AtomicInstall ==
    \A r \in Reqs :
        resp[r].kind = "file" => (resp[r].file.full /\ resp[r].entry)

\* the fetch of r has returned success
Succeeded(r) ==
    pc[r] \in {"probe2", "done"} /\ fx[r].fetches = 1 /\ fx[r].failedAt = "-"

\* the fetch counter of a key
FetchCount(k) == Cardinality({r \in Reqs : KeyOf(r) = k /\ fx[r].fetches = 1})
FetchCountNext(k) == Cardinality({r \in Reqs : req'[r] # NoRequest /\ Key(req'[r]) = k /\ fx'[r].fetches = 1})

\* the bytes of a file, whoever wrote them
Bytes(f) == [present |-> f.present, commit |-> f.commit, full |-> f.full]

\* C3: cache idempotence.  Once a fetch for a key has completed successfully,
\* what a request for an artifact of the key is served (the bytes the cache
\* holds when it arrives) stays the same, and the fetch counter of the key
\* does not grow.
C3_CacheIdempotence ==
    [][\A k \in Keys :
          (\E r \in Reqs : KeyOf(r) = k /\ Succeeded(r))
              => /\ FetchCountNext(k) = FetchCount(k)
                 /\ \A a \in Artifacts :
                        Bytes(FileOf(disk'[k], a)) = Bytes(FileOf(disk[k], a))]_vars

\* the URL path of the request is prefixed by "/" and the source namespace
InNamespace(q) == HasPrefix(UrlPath(q), <<"/">> \o SrcRepo)

\* C4: namespace isolation.  A request whose URL path is not prefixed by the
\* source namespace is answered 404 and is not routed, decoded, listed,
\* probed or fetched, whatever its method and endpoint.
C4_NamespaceIsolation ==
    \A r \in Reqs :
        (pc[r] # "idle" /\ ~InNamespace(req[r]))
            => /\ pc[r] = "done"
               /\ resp[r].status = 404
               /\ ~fx[r].routed /\ ~fx[r].decoded /\ ~fx[r].listed
               /\ fx[r].probes = 0 /\ fx[r].fetches = 0

\* a list request and an info request by another method, both outside the
\* namespace, have been answered 404
C4_Witness ==
    \E r1, r2 \in Reqs :
        /\ pc[r1] = "done" /\ ~InNamespace(req[r1]) /\ req[r1].shape = "list"
        /\ resp[r1].status = 404
        /\ pc[r2] = "done" /\ ~InNamespace(req[r2]) /\ req[r2].meth = "POST"
        /\ resp[r2].status = 404

\* C5: a fetch that failed at any step has left no artifact of its own in
\* the cache entry of its key.
C5_NoPartialEntry ==
    \A r \in Reqs :
        fx[r].failedAt # "-"
            => \A a \in Artifacts :
                   ~(FileOf(disk[KeyOf(r)], a).present /\ FileOf(disk[KeyOf(r)], a).by = r)

\* C6: requests that missed on the same cold key at the same time all
\* observe one fetch attempt: all are served artifacts written by the same
\* attempt, or all receive an error.
C6_SameOutcome ==
    \A r1, r2 \in Reqs :
        (/\ r1 # r2 /\ KeyOf(r1) = KeyOf(r2)
         /\ fx[r1].shared /\ fx[r2].shared
         /\ pc[r1] = "done" /\ pc[r2] = "done")
            => \/ /\ resp[r1].kind = "file" /\ resp[r2].kind = "file"
                  /\ resp[r1].file.by = resp[r2].file.by
               \/ /\ resp[r1].kind = "error" /\ resp[r2].kind = "error"
                  /\ resp[r1].status = resp[r2].status

\* the artifact is in the cache as a file a fetch has written
IsFile(f) == f.present /\ ~f.isdir

\* the entry holds no artifact file
NoFiles(entry) == \A a \in Artifacts : ~IsFile(FileOf(entry, a))

\* C7: the artifacts the cache holds for the branch key come from one fetch
\* attempt, hence from one checked-out commit.
C7_NoMixedEntry ==
    \A a, b \in Artifacts :
        LET e == disk[<<ModX, VerBranch>>] IN
        (IsFile(FileOf(e, a)) /\ IsFile(FileOf(e, b)))
            => FileOf(e, a).commit = FileOf(e, b).commit

\* the state of a key: a fetch for it runs, its three artifacts are installed,
\* it has no artifact file (never fetched, or failed), or some of them
Fetching(k) == \E r \in Reqs : KeyOf(r) = k /\ pc[r] \in FetchPcs
FetchingNext(k) == \E r \in Reqs : req'[r] # NoRequest /\ Key(req'[r]) = k /\ pc'[r] \in FetchPcs
KeyState(k) ==
    IF Fetching(k) THEN "Fetching"
    ELSE IF AllFull(disk[k]) THEN "Cached"
    ELSE IF NoFiles(disk[k]) THEN "Uncached"
    ELSE "Partial"
KeyStateNext(k) ==
    IF FetchingNext(k) THEN "Fetching"
    ELSE IF AllFull(disk'[k]) THEN "Cached"
    ELSE IF NoFiles(disk'[k]) THEN "Uncached"
    ELSE "Partial"

\* C8: the state of a key changes only from Uncached to Fetching, from
\* Fetching to Cached, and from Fetching back to Uncached (the fetch failed,
\* no entry installed); a Cached key is never fetched again.
C8_KeyStateMachine ==
    [][\A k \in Keys :
          \/ KeyStateNext(k) = KeyState(k)
          \/ <<KeyState(k), KeyStateNext(k)>> \in
                {<<"Uncached", "Fetching">>, <<"Fetching", "Cached">>,
                 <<"Fetching", "Uncached">>}]_vars

\* the request reaches one of the four handlers
Routed(q) == InNamespace(q) /\ q.meth = "GET" /\ q.shape \in {"list", "info", "mod", "zip"}

\* C9: a routed request whose module or version segment is not a valid
\* escaped identifier is answered 400, and nothing is listed, probed or
\* fetched and no cache directory is made for it.
C9_DecodeFailure ==
    \A r \in Reqs :
        (/\ pc[r] # "idle" /\ Routed(req[r])
         /\ \/ UnescapePath(req[r].module) = Fail
            \/ unescapeString(req[r].version) = Fail)
            => /\ pc[r] = "done"
               /\ resp[r].status = 400
               /\ ~fx[r].listed /\ fx[r].probes = 0 /\ fx[r].fetches = 0
               /\ (KeyOf(r) \in Keys => ~disk[KeyOf(r)].dir)

\* C10: when the checkout fails in the fetch of a request, the request is
\* answered 500 and the fetch writes no artifact: the artifacts of the key
\* are what they were, so a key that was cold has no artifact file
\* afterwards, and no artifact of the key is ever one of that fetch.
C10_CheckoutFailure ==
    /\ [](\A r \in Reqs :
             fx[r].failedAt = "clone"
                 => /\ pc[r] = "done"
                    /\ resp[r].status = 500
                    /\ \A a \in Artifacts : FileOf(disk[KeyOf(r)], a).by # r)
    /\ [][\A r \in Reqs :
             (pc[r] = "fetchCall" /\ fx'[r].failedAt = "clone")
                 => /\ \A a \in Artifacts :
                           FileOf(disk'[KeyOf(r)], a) = FileOf(disk[KeyOf(r)], a)
                    /\ (Cold(disk[KeyOf(r)]) => Cold(disk'[KeyOf(r)]))]_vars

\* a request for a cold key, whose ref exists, has been answered 500 after
\* its checkout failed, and the key has no artifact
C10_Witness ==
    \E r \in Reqs :
        /\ fx[r].failedAt = "clone" /\ RefExists(req[r])
        /\ resp[r].status = 500
        /\ Cold(disk[KeyOf(r)])

\* no other request has run a fetch for the key of r
OnlyFetchOfKey(r) ==
    \A o \in Reqs \ {r} : ~(KeyOf(o) = KeyOf(r) /\ fx[o].fetches = 1)

\* C11: no negative cache.  After the only fetch for a key has failed, the
\* key is Uncached again (it has no artifact file), and a request for the
\* key that arrives then misses and calls the fetcher anew; no failure is
\* stored and served.
C11_NoNegativeCache ==
    /\ [](\A r \in Reqs :
             (fx[r].failedAt # "-" /\ OnlyFetchOfKey(r)) => NoFiles(disk[KeyOf(r)]))
    /\ [][\A r, o \in Reqs :
             (/\ fx[o].failedAt # "-" /\ OnlyFetchOfKey(o)
              /\ pc[r] = "idle" /\ pc'[r] # "idle"
              /\ Routed(req'[r]) /\ req'[r].shape \in Artifacts
              /\ Key(req'[r]) = KeyOf(o))
                 => pc'[r] = "fetchCall"]_vars

\* the steps of a fetch that fail for a local reason
LocalFailures == {"mkdirtemp", "mkdirall", "gitlog", "infoopen", "infowrite",
                  "modopen", "modcopy", "archive", "zipopen", "zipcopy"}

\* C12: a local failure inside a fetch is answered 500 to the request that
\* caused the fetch, and the serving process keeps running.
C12_LocalFailure ==
    \A r \in Reqs :
        fx[r].failedAt \in LocalFailures
            => /\ pc[r] = "done"
               /\ resp[r].status = 500
               /\ alive

\* C13: every response carries Cache-Control: no-store.
C13_NoStoreAlways ==
    \A r \in Reqs : pc[r] = "done" => resp[r].nostore

\* the list request r gets its response in this step
ListStep(r) == pc[r] = "lsremote" /\ pc'[r] = "done"

Peel == <<"^", "{", "}">>
\* the tag a ref name of the listing stands for: the peeled entry v1^{} of an
\* annotated tag stands for the tag v1
TagOf(name) ==
    IF Len(name) > Len(Peel) /\ SubSeq(name, Len(name) - Len(Peel) + 1, Len(name)) = Peel
    THEN SubSeq(name, 1, Len(name) - Len(Peel))
    ELSE name
\* the tag names of the remote, given the lines of its listing
TagNames(lines) ==
    {TagOf(LastSegment(lines[i])) :
        i \in {j \in DOMAIN lines : Contains(lines[j], RefsTags)}}

Range(f) == {f[i] : i \in DOMAIN f}

\* C14: list correctness.  The body of a successful list response holds
\* exactly the tag names of the remote, each once, whatever lines the remote
\* listing returns.
C14_ListCorrectness ==
    [][\A r \in Reqs :
          (ListStep(r) /\ resp'[r].status = 200)
              => /\ Range(resp'[r].lines) = TagNames(refs)
                 /\ Len(resp'[r].lines) = Cardinality(TagNames(refs))]_vars

\* C15: when the remote listing fails, the list request is answered 404 with
\* the error, and no version line is reported.
C15_ListingFailure ==
    \A r \in Reqs :
        fx[r].lsErr
            => /\ pc[r] = "done"
               /\ resp[r].status = 404
               /\ resp[r].kind = "error"
               /\ resp[r].lines = <<>>

\* the listing of an existing repository, which has a tag, failed and the
\* request has been answered 404
C15_Witness ==
    \E r \in Reqs :
        /\ fx[r].lsErr /\ pc[r] = "done"
        /\ LastSegment(UnescapePath(req[r].module)) \in Repos
        /\ TagNames(refs) # {}
        /\ resp[r].status = 404

\* C16: listing is never cached.  Every accepted list request runs the
\* remote listing, a successful response holds what the remote returns at
\* that listing, and handling a list request neither probes nor fetches nor
\* changes the cache store.
C16_ListNeverCached ==
    /\ [](\A r \in Reqs :
             (pc[r] = "done" /\ req[r].shape = "list" /\ fx[r].decoded)
                 => fx[r].listed /\ fx[r].probes = 0 /\ fx[r].fetches = 0)
    /\ [][\A r \in Reqs :
             ListStep(r)
                 => /\ (~fx'[r].lsErr => resp'[r].lines = parseLines(refs))
                    /\ disk' = disk /\ scratch' = scratch]_vars

\* two list requests for the same module, separated by a change of the
\* remote tags, have been answered with different listings
C16_Witness ==
    \E r1, r2 \in Reqs :
        /\ r1 # r2 /\ pc[r1] = "done" /\ pc[r2] = "done"
        /\ req[r1].shape = "list" /\ req[r2] = req[r1]
        /\ resp[r1].status = 200 /\ resp[r2].status = 200
        /\ resp[r1].lines # resp[r2].lines
        /\ resp[r2].lines = parseLines(refs)

\* the keys for which a fetch is running
RunningKeys == {KeyOf(r) : r \in {o \in Reqs : pc[o] \in FetchPcs}}

\* a global bound below the number of requests handled at the same time
FetchLimit == NReq - 1

\* C17: the number of fetches that run at the same time, over all keys, is
\* at most the global bound, also when every request is for another cold key.
C17_GlobalFetchBound == Cardinality(RunningKeys) <= FetchLimit

\* C18: a request whose remote listing or checkout never completes is
\* eventually answered (the per-request timeout ends it with an error), as
\* long as the serving process runs.
C18_RequestTimeout ==
    \A r \in Reqs : (pc[r] = "stalled") ~> (pc[r] = "done" \/ ~alive)

\* the module path is the namespace or lies below it
UnderNamespace(m) == m = SrcRepo \/ HasPrefix(m, SrcRepo \o <<"/">>)

\* C19: a request whose decoded module path does not fall under the source
\* namespace (segment boundary included) is answered 404 and reaches no
\* handler: nothing is decoded, listed, probed or fetched for it.
C19_SegmentBoundary ==
    \A r \in Reqs :
        (/\ pc[r] # "idle"
         /\ UnescapePath(req[r].module) # Fail
         /\ ~UnderNamespace(UnescapePath(req[r].module)))
            => /\ pc[r] = "done"
               /\ resp[r].status = 404
               /\ ~fx[r].decoded /\ ~fx[r].listed
               /\ fx[r].probes = 0 /\ fx[r].fetches = 0

\* nothing has been done for the request but answering it
NoHandlerRan(r) ==
    /\ pc[r] = "done"
    /\ ~fx[r].decoded /\ ~fx[r].listed
    /\ fx[r].probes = 0 /\ fx[r].fetches = 0

Shapes == {"list", "info", "mod", "zip"}

C21_ContentType ==
    \A r \in Reqs :
        resp[r].kind = "file"
            => /\ fx[r].probes \in {1, 2}
               /\ req[r].shape = "info" => resp[r].ctype = "application/json"
               /\ req[r].shape = "mod" => resp[r].ctype = "text/plain; charset=UTF-8"
               /\ req[r].shape = "zip" => resp[r].ctype = "application/zip"

\* a .mod artifact has been streamed on the re-probe after a fetch, and an
\* .info artifact on a first-probe hit
C21_Witness ==
    \E r1, r2 \in Reqs :
        /\ resp[r1].kind = "file" /\ fx[r1].probes = 2 /\ req[r1].shape = "mod"
        /\ resp[r1].ctype = "text/plain; charset=UTF-8"
        /\ resp[r2].kind = "file" /\ fx[r2].probes = 1 /\ req[r2].shape = "info"
        /\ resp[r2].ctype = "application/json"

\* fetches that have not ended: the worker is inside fetchAndCache
FetchRunning(r) == pc[r] \in FetchPcs \/ (pc[r] = "stalled" /\ fx[r].fetches = 1)

\* C22: the scratch workspace of a fetch is discarded when the fetch ends:
\* the scratch directories that exist are those of fetches in flight.
C22_ScratchDiscarded ==
    \A r \in scratch : FetchRunning(r)

\* C23: only a fetch execution changes the cache directory tree.  A step
\* that receives a request (namespace check, routing, decoding, first
\* probe and streaming), lists, or probes again leaves every entry as it
\* is, and every change of an entry is a step of a worker inside the fetcher.
C23_OnlyFetchWrites ==
    [][/\ \A r \in Reqs :
             (pc[r] \in {"idle", "lsremote", "probe2"} /\ pc'[r] # pc[r])
                 => disk' = disk
       /\ disk' # disk
             => \E r \in Reqs : /\ pc[r] \in {"fetchCall"} \cup FetchPcs
                                /\ pc'[r] # pc[r]]_vars

\* with artifacts in the cache, an artifact has been streamed after the
\* re-probe and a list request has been answered
C23_Witness ==
    \E r1, r2 \in Reqs :
        /\ resp[r1].kind = "file" /\ fx[r1].probes = 2
        /\ AllFull(disk[KeyOf(r1)])
        /\ resp[r2].kind = "list"

\* C24: the prefix of the archive a fetch makes is the decoded module name,
\* '@', the decoded version and '/'.
C24_ArchivePrefix ==
    \A r \in Reqs :
        (/\ fx[r].prefix # <<>>
         /\ UnescapePath(req[r].module) # Fail
         /\ unescapeString(req[r].version) # Fail)
            => fx[r].prefix = UnescapePath(req[r].module) \o <<"@">>
                                \o unescapeString(req[r].version) \o <<"/">>

\* the request r is handled by info, mod or zip
ArtifactRequest(r) == pc[r] # "idle" /\ Routed(req[r]) /\ req[r].shape \in Artifacts

\* the first probe of r found its path in the cache and r was answered from it
FirstProbeHit(r) == fx[r].probes = 1 /\ resp[r].kind \in {"file", "redirect"}

\* C25: one info, mod or zip request probes the cache at most twice and
\* calls the fetcher at most once.  A first-probe hit is served without a
\* fetch; after a miss the fetcher is called once; the probe is repeated
\* once, and only after a fetch that returned success; a failed fetch ends
\* the request without another attempt.
C25_ProbeFetchProbe ==
    \A r \in Reqs :
        ArtifactRequest(r)
            => /\ fx[r].probes \in {1, 2} /\ fx[r].fetches \in {0, 1}
               /\ FirstProbeHit(r) => fx[r].fetches = 0
               /\ (pc[r] = "done" /\ ~FirstProbeHit(r)) => fx[r].fetches = 1
               /\ fx[r].probes = 2 => (fx[r].fetches = 1 /\ fx[r].failedAt = "-")
               /\ (pc[r] = "done" /\ fx[r].fetches = 1 /\ fx[r].failedAt = "-")
                      => fx[r].probes = 2
               /\ fx[r].failedAt # "-"
                      => (fx[r].probes = 1 /\ pc[r] \in {"done", "dropped"})

\* one request has been answered after a failed fetch, without a second
\* probe, and another after a fetch and the second probe
C25_Witness ==
    \E r1, r2 \in Reqs :
        /\ ArtifactRequest(r1) /\ pc[r1] = "done"
        /\ fx[r1].failedAt = "clone" /\ fx[r1].probes = 1 /\ fx[r1].fetches = 1
        /\ ArtifactRequest(r2) /\ pc[r2] = "done"
        /\ fx[r2].probes = 2 /\ fx[r2].fetches = 1 /\ resp[r2].kind = "file"

\* C26: when the fetch of a request has returned success, the three
\* artifacts of its key exist; the second probe hits and the request is
\* answered 200 with the requested artifact, completely written.  No info,
\* mod or zip request is answered 200 without an artifact body.
C26_FetchSuccessServes ==
    \A r \in Reqs :
        ArtifactRequest(r)
            => /\ Succeeded(r)
                   => \A a \in Artifacts : FileOf(disk[KeyOf(r)], a).present
               /\ (pc[r] = "done" /\ Succeeded(r))
                   => /\ resp[r].status = 200
                      /\ resp[r].kind = "file"
                      /\ resp[r].file.present /\ resp[r].file.full
               /\ (pc[r] = "done" /\ resp[r].status = 200) => resp[r].kind = "file"

\* C27: install order.  For every key, if source.zip exists then go.mod
\* exists, and if go.mod exists then <version>.info exists.
C27_InstallOrder ==
    \A k \in Keys :
        /\ disk[k].zip.present => disk[k].mod.present
        /\ disk[k].mod.present => disk[k].info.present

\* the worker of r takes a step inside the fetcher
FetchStep(r) == pc[r] \in {"fetchCall"} \cup FetchPcs /\ pc'[r] # pc[r]

\* C28: a fetch for a key changes the artifacts of that key only: a step of
\* a fetch leaves the three artifacts of every other key as they are.
C28_KeyFrame ==
    [][\A r \in Reqs :
          FetchStep(r)
              => \A k \in Keys \ {KeyOf(r)} :
                     \A a \in Artifacts : FileOf(disk'[k], a) = FileOf(disk[k], a)]_vars

====
